---- MODULE Spec2Model ----
(***************************************************************************)
(* MAX6955 LED display driver (lonesometraveler/max6955).                  *)
(*                                                                         *)
(* The driver owns an I2C handle and a slave address.  Every public        *)
(* method issues one or more bus transactions.  A method with a single     *)
(* transaction is one action; a read-modify-write method is a call action  *)
(* followed by one action per bus transaction, because the bus is where    *)
(* the method can fail and where the device can be observed.               *)
(*                                                                         *)
(* The device behind the bus is modelled by the two registers the driver   *)
(* reads back (Configuration and Port Configuration) and by the slave      *)
(* address it answers to.                                                  *)
(* SpecExt adds another bus master that writes the Configuration register  *)
(* between the transactions of the driver.                                 *)
(***************************************************************************)
EXTENDS Integers, Sequences, FiniteSets, TLC

---------------------------------------------------------------------------
(* The records of the model.  TLC keeps the fields of a record in the     *)
(* order in which their names first occur in the module, so every record  *)
(* is declared here once and is written with its fields in this order     *)
(* wherever it occurs below.                                               *)

\* a method called without arguments, or a constructor
Called(name) == [name |-> name]

\* one bus transaction: kind "write" or "write_read", the slave address,
\* the bytes sent, the outcome and the bytes read
Transaction(k, a, b, r, buf) ==
    [kind |-> k, addr |-> a, bytes |-> b, res |-> r, buffer |-> buf]

\* the methods called with arguments
Called_set_address(a) == [name |-> "set_address", addr |-> a]
Called_set_global_intensity(intensity) ==
    [name |-> "set_global_intensity", intensity |-> intensity]
Called_set_digit_type(digit_type) ==
    [name |-> "set_digit_type", digit_type |-> digit_type]
Called_test(enable) == [name |-> "test", enable |-> enable]
Called_write_str(text) == [name |-> "write_str", text |-> text]
Called_set_pin_mode(port, pin_mode) ==
    [name |-> "set_pin_mode", port |-> port, pin_mode |-> pin_mode]
Called_set_decode_mode(mode) == [name |-> "set_decode_mode", mode |-> mode]

\* the flag values requested most recently (<<>>: never, <<v>>: v)
Requested(s, b, r) == [shutdown |-> s, blink |-> b, rate |-> r]

Called_set_blink(mode, rate) == [name |-> "set_blink", mode |-> mode, rate |-> rate]

\* one pending set_configuration_bit(bit, set) call
ConfigBitCall(bit, set) == [bit |-> bit, set |-> set]

\* a write of another bus master: transactions issued before it, byte written
ExternalWrite(pos, value) == [pos |-> pos, value |-> value]

\* the outcome of building the row of write_str
RowBuilt(panic, row) == [panic |-> panic, row |-> row]

VARIABLES
    addr,        \* Max6955.addr: the stored slave address
    pc,          \* position of the driver inside the running method
    op,          \* the method called last, with its arguments
    todo,        \* pending set_configuration_bit calls of the running method
    local,       \* the byte read_register returned (config / port_config)
    txs,         \* bus transactions issued by the method called last
    result,      \* what that method returned
    devAddr,     \* slave address the device answers to
    config_reg,  \* device register 0x04
    port_reg,    \* device register 0x06
    given,       \* history: address given most recently
    allOk,       \* history: every bus transaction so far succeeded
    config0,     \* history: Configuration register at construction
    req,         \* history: value requested most recently per flag
    input,       \* the text the caller passes to write_str
    ext          \* history: writes of another bus master during the method

vars == <<addr, pc, op, todo, local, txs, result, devAddr, config_reg,
          port_reg, given, allOk, config0, req, input, ext>>

---------------------------------------------------------------------------
(* Bounds of the model *)

MaxTextLen == 9
MaxPort == 8
MaxExternal == 2

---------------------------------------------------------------------------
(* register.rs, types.rs, lib.rs constants *)

DEFAULT_SLAVE_ADDR == 96        \* 0x60

Register_DecodeMode == 1
Register_GlobalIntensity == 2
Register_Configuration == 4
Register_PortConfiguration == 6
Register_DisplayTest == 7
Register_DigitType == 12
Register_Digit0Plane0 == 32

ConfigBitFlag_Shutdown == 0
ConfigBitFlag_BlinkRate == 2
ConfigBitFlag_Blink == 3

DigitTypes == {"Seg7_16", "D0_14", "D0D2_14", "Seg14"}
DecodeModes == {"NoDecode", "HexD0", "HexD0D2", "Hex"}
PinModes == {"Input", "Output"}
BlinkModes == {"Disable", "Enable"}
BlinkRates == {"Fast", "Slow"}

DigitType_value(t) ==
    CASE t = "Seg7_16" -> 0
      [] t = "D0_14" -> 1
      [] t = "D0D2_14" -> 7
      [] t = "Seg14" -> 255

DecodeMode_value(m) ==
    CASE m = "NoDecode" -> 0
      [] m = "HexD0" -> 1
      [] m = "HexD0D2" -> 7
      [] m = "Hex" -> 255

\* variant: the two blink modes exchanged
BlinkMode_value_swapped(m) ==
    CASE m = "Disable" -> TRUE
      [] m = "Enable" -> FALSE

BlinkMode_value(m) ==
    CASE m = "Disable" -> FALSE
      [] m = "Enable" -> TRUE

\* variant: the two rates exchanged
BlinkRate_value_swapped(r) ==
    CASE r = "Slow" -> TRUE
      [] r = "Fast" -> FALSE

BlinkRate_value(r) ==
    CASE r = "Slow" -> FALSE
      [] r = "Fast" -> TRUE

\* variant: the two pin modes exchanged
PinMode_value_swapped(m) ==
    CASE m = "Input" -> FALSE
      [] m = "Output" -> TRUE

\* match pin_mode { Input => set_bit(port, true), Output => set_bit(port, false) }
PinMode_value(m) ==
    CASE m = "Input" -> TRUE
      [] m = "Output" -> FALSE

---------------------------------------------------------------------------
(* u8 arithmetic *)

U8 == 0..255
BIT_LENGTH == 8

Pow2(k) == 2 ^ k

get_bit(byte, bit) == (byte \div Pow2(bit)) % 2 = 1

\* variant: the bit is set whatever `value` says
set_bit_always(byte, bit, value) ==
    IF get_bit(byte, bit) THEN byte ELSE byte + Pow2(bit)

\* variant: the byte is replaced by the mask instead of combined with it
set_bit_mask_only(byte, bit, value) == IF value THEN Pow2(bit) ELSE 0

\* bit_field::BitField::set_bit on u8, for bit < BIT_LENGTH:
\*   value: *self |= 1 << bit      otherwise: *self &= !(1 << bit)
set_bit(byte, bit, value) ==
    IF value
    THEN IF get_bit(byte, bit) THEN byte ELSE byte + Pow2(bit)
    ELSE IF get_bit(byte, bit) THEN byte - Pow2(bit) ELSE byte

\* variant: the documented port range 0..4 is enforced
set_bit_panics_documented(bit) == bit >= BIT_LENGTH - 3

\* set_bit asserts bit < BIT_LENGTH and panics otherwise
set_bit_panics(bit) == bit >= BIT_LENGTH

---------------------------------------------------------------------------
(* write_str: the 9-byte row *)

ROW_LEN == 9
SPACE == 32                     \* b' '
TILDE == 126                    \* '~'

\* variant: the upper end of the range is not tested, the cast truncates
EncodeChar_no_upper(c) == IF c >= SPACE THEN c % 256 ELSE SPACE

\* match c { ' '..='~' => c as u8, _ => b' ' }
EncodeChar(c) == IF c >= SPACE /\ c <= TILDE THEN c ELSE SPACE

\* let mut row: [u8; 9] = [b' '; 9]; row[0] = Register::Digit0Plane0.addr();
InitialRow == [j \in 1..ROW_LEN |-> IF j = 1 THEN Register_Digit0Plane0 ELSE SPACE]

\* for (i, c) in text.chars().enumerate() { row[i + 1] = ... }
\* row[k] of the code is row[k + 1] here; an index past the array panics.
RECURSIVE FillRow(_, _, _)
FillRow(row, text, i) ==
    IF i >= Len(text)
    THEN RowBuilt(FALSE, row)
    ELSE IF i + 1 >= ROW_LEN
         THEN RowBuilt(TRUE, row)
         ELSE FillRow([row EXCEPT ![i + 2] = EncodeChar(text[i + 1])], text, i + 1)

BuildRow(text) == FillRow(InitialRow, text, 0)

---------------------------------------------------------------------------
(* The bus transport and the device behind it *)

Errors == {"NoAcknowledge", "ArbitrationLoss"}

\* A transaction can succeed only when a device answers at the address.
Outcomes(a) == IF a = devAddr THEN {"Ok"} \cup Errors ELSE Errors

\* variant: the default address instead of the stored one
BusAddr_default == DEFAULT_SLAVE_ADDR

\* The address every transaction of the driver is sent to: self.addr
BusAddr == addr

\* Value register reg holds after a successful write of bytes
\* (first byte: start register, the rest: data, address auto-incrementing).
AfterWrite(reg, old, bytes) ==
    IF reg >= bytes[1] /\ reg - bytes[1] + 2 <= Len(bytes)
    THEN bytes[reg - bytes[1] + 2]
    ELSE old

\* Value the device returns for register reg (untracked registers read 0).
RegValue(reg) ==
    CASE reg = Register_Configuration -> config_reg
      [] reg = Register_PortConfiguration -> port_reg
      [] OTHER -> 0

\* The 8 bytes a read starting at reg returns.
ReadBuffer(reg) == [k \in 1..8 |-> RegValue(reg + k - 1)]

\* self.i2c.write(self.addr, bytes) with outcome r, logged after log
i2c_write(log, bytes, r) ==
    /\ txs' = Append(log, Transaction("write", BusAddr, bytes, r, <<>>))
    /\ config_reg' = IF r = "Ok"
                     THEN AfterWrite(Register_Configuration, config_reg, bytes)
                     ELSE config_reg
    /\ port_reg' = IF r = "Ok"
                   THEN AfterWrite(Register_PortConfiguration, port_reg, bytes)
                   ELSE port_reg
    /\ allOk' = (allOk /\ r = "Ok")

\* self.i2c.write_read(self.addr, &[reg.addr()], buffer) with outcome r
i2c_write_read(log, reg, r) ==
    /\ txs' = Append(log, Transaction("write_read", BusAddr, <<reg>>, r,
                                       IF r = "Ok" THEN ReadBuffer(reg) ELSE <<>>))
    /\ allOk' = (allOk /\ r = "Ok")
    /\ UNCHANGED <<config_reg, port_reg>>

\* variant: the data byte cut to the 4 bits of an intensity
write_register_bytes_nibble(reg, byte) == <<reg, byte % 16>>

\* fn write_register: the two bytes sent
write_register_bytes(reg, byte) == <<reg, byte>>

\* variant: the byte written last in this method is reused instead of the
\* byte just read
read_register_value_cached(buffer) ==
    IF Len(txs) >= 2 THEN txs[2].bytes[2] ELSE buffer[1]

\* fn read_register: Ok(buffer[0])
read_register_value(buffer) == buffer[1]

\* variant: the error of the read is not propagated
AfterRead_ignored(r, onOk) == onOk

\* the `?` after read_register: where the method goes after the read
AfterRead(r, onOk) == IF r = "Ok" THEN onOk ELSE "idle"

---------------------------------------------------------------------------
(* Construction: Init is the state new / with_address leave *)

\* <<>>: never requested; <<v>>: v requested most recently
NoRequest == Requested(<<>>, <<>>, <<>>)

\* What every constructor leaves, for stored address a, on a bus whose
\* device answers at d with register contents c and p.
Constructed(name, a, d, c, p) ==
    /\ addr = a
    /\ pc = "idle"
    /\ op = Called(name)
    /\ todo = <<>>
    /\ local = 0
    /\ txs = <<>>
    /\ result = "Ok"
    /\ devAddr = d
    /\ config_reg = c
    /\ port_reg = p
    /\ given = a
    /\ allOk = TRUE
    /\ config0 = c
    /\ req = NoRequest
    /\ ext = <<>>

\* pub fn new(i2c) : addr = DEFAULT_SLAVE_ADDR
new(d, c, p) == Constructed("new", DEFAULT_SLAVE_ADDR, d, c, p)

\* pub fn with_address(i2c, addr)
with_address(a, d, c, p) == Constructed("with_address", a, d, c, p)

---------------------------------------------------------------------------
(* Methods with no or one bus transaction *)

\* pub fn set_address(&mut self, addr: u8)
set_address(a) ==
    /\ pc = "idle"
    /\ addr' = a
    /\ given' = a
    /\ op' = Called_set_address(a)
    /\ txs' = <<>>
    /\ result' = "Ok"
    /\ UNCHANGED <<pc, todo, local, devAddr, config_reg, port_reg, allOk, config0, req, input, ext>>

\* A method that is one write_register call and returns its result.
SingleWrite(call, reg, byte) ==
    /\ pc = "idle"
    /\ \E r \in Outcomes(BusAddr) :
          /\ i2c_write(<<>>, write_register_bytes(reg, byte), r)
          /\ result' = r
    /\ op' = call
    /\ UNCHANGED <<addr, pc, todo, local, devAddr, given, config0, req, input, ext>>

\* pub fn set_global_intensity(&mut self, intensity: u8)
set_global_intensity(intensity) ==
    SingleWrite(Called_set_global_intensity(intensity),
                Register_GlobalIntensity, intensity)

\* pub fn set_digit_type(&mut self, digit_type: DigitType)
set_digit_type(digit_type) ==
    SingleWrite(Called_set_digit_type(digit_type),
                Register_DigitType, DigitType_value(digit_type))

\* pub fn set_decode_mode(&mut self, mode: DecodeMode)
set_decode_mode(mode) ==
    SingleWrite(Called_set_decode_mode(mode),
                Register_DecodeMode, DecodeMode_value(mode))

\* if enable { 0x01 } else { 0x00 }
test_byte(enable) == IF enable THEN 1 ELSE 0

\* pub fn test(&mut self, enable: bool)
test(enable) ==
    SingleWrite(Called_test(enable),
                Register_DisplayTest, test_byte(enable))

\* The body of write_str, entered from the method `call`.
write_str_body(call, text) ==
    /\ pc = "idle"
    /\ op' = call
    /\ LET b == BuildRow(text) IN
       IF b.panic
       THEN /\ pc' = "panicked"
            /\ result' = "panic"
            /\ txs' = <<>>
            /\ UNCHANGED <<config_reg, port_reg, allOk>>
       ELSE /\ \E r \in Outcomes(BusAddr) :
                  /\ i2c_write(<<>>, b.row, r)
                  /\ result' = r
            /\ pc' = "idle"
    /\ UNCHANGED <<addr, todo, local, devAddr, given, config0, req, input, ext>>

\* pub fn write_str(&mut self, text: &str)
write_str(text) == write_str_body(Called_write_str(text), text)

\* variant: clear_display writes a zero digit
EmptyText_zero == <<48>>

\* the "" of clear_display
EmptyText == <<>>

\* pub fn clear_display(&mut self) : self.write_str("")
clear_display == write_str_body(Called("clear_display"), EmptyText)

---------------------------------------------------------------------------
(* Read-modify-write methods *)

\* Entering a method that is a sequence of set_configuration_bit calls.
CallConfig(call, calls, requested) ==
    /\ pc = "idle"
    /\ op' = call
    /\ todo' = calls
    /\ pc' = "cfg_read"
    /\ txs' = <<>>
    /\ result' = "pending"
    /\ req' = requested
    /\ ext' = <<>>
    /\ UNCHANGED <<addr, local, devAddr, config_reg, port_reg, given, allOk, config0, input>>

\* pub fn set_blink(&mut self, mode: BlinkMode, rate: BlinkRate)
set_blink(mode, rate) ==
    CallConfig(Called_set_blink(mode, rate),
               << ConfigBitCall(ConfigBitFlag_Blink, BlinkMode_value(mode)),
                  ConfigBitCall(ConfigBitFlag_BlinkRate, BlinkRate_value(rate)) >>,
               [req EXCEPT !.blink = <<mode = "Enable">>,
                           !.rate = <<rate = "Fast">>])

\* pub fn powerup(&mut self)
powerup ==
    CallConfig(Called("powerup"),
               << ConfigBitCall(ConfigBitFlag_Shutdown, TRUE) >>,
               [req EXCEPT !.shutdown = <<TRUE>>])

\* pub fn shutdown(&mut self)
shutdown ==
    CallConfig(Called("shutdown"),
               << ConfigBitCall(ConfigBitFlag_Shutdown, FALSE) >>,
               [req EXCEPT !.shutdown = <<FALSE>>])

\* set_configuration_bit, first line:
\*   let mut config: u8 = self.read_register(Register::Configuration)?;
set_configuration_bit_read ==
    /\ pc = "cfg_read"
    /\ \E r \in Outcomes(BusAddr) :
          /\ i2c_write_read(txs, Register_Configuration, r)
          /\ pc' = AfterRead(r, "cfg_write")
          /\ IF r = "Ok"
             THEN /\ local' = read_register_value(ReadBuffer(Register_Configuration))
                  /\ UNCHANGED <<todo, result>>
             ELSE /\ local' = 0
                  /\ todo' = <<>>
                  /\ result' = r
    /\ UNCHANGED <<addr, op, devAddr, given, config0, req, input, ext>>

\* set_configuration_bit, the rest:
\*   config.set_bit(bit.value(), set);
\*   self.write_register(Register::Configuration, config)
\* and the caller's `?` or tail return.
set_configuration_bit_write ==
    /\ pc = "cfg_write"
    /\ LET call == Head(todo)
           config == set_bit(local, call.bit, call.set)
       IN \E r \in Outcomes(BusAddr) :
             /\ i2c_write(txs, write_register_bytes(Register_Configuration, config), r)
             /\ IF r = "Ok" /\ Tail(todo) # <<>>
                THEN /\ pc' = "cfg_read"
                     /\ todo' = Tail(todo)
                     /\ UNCHANGED result
                ELSE /\ pc' = "idle"
                     /\ todo' = <<>>
                     /\ result' = r
    /\ local' = 0
    /\ UNCHANGED <<addr, op, devAddr, given, config0, req, input, ext>>

\* pub fn set_pin_mode(&mut self, port: usize, pin_mode: PinMode), the call
set_pin_mode(port, pin_mode) ==
    /\ pc = "idle"
    /\ op' = Called_set_pin_mode(port, pin_mode)
    /\ pc' = "pin_read"
    /\ txs' = <<>>
    /\ result' = "pending"
    /\ UNCHANGED <<addr, todo, local, devAddr, config_reg, port_reg,
                   given, allOk, config0, req, input, ext>>

\* let mut port_config: u8 = self.read_register(Register::PortConfiguration)?;
set_pin_mode_read ==
    /\ pc = "pin_read"
    /\ \E r \in Outcomes(BusAddr) :
          /\ i2c_write_read(txs, Register_PortConfiguration, r)
          /\ pc' = AfterRead(r, "pin_write")
          /\ IF r = "Ok"
             THEN /\ local' = read_register_value(ReadBuffer(Register_PortConfiguration))
                  /\ UNCHANGED result
             ELSE /\ local' = 0
                  /\ result' = r
    /\ UNCHANGED <<addr, op, todo, devAddr, given, config0, req, input, ext>>

\* let config = match pin_mode { Input => *port_config.set_bit(port, true), ... };
\* self.write_register(Register::PortConfiguration, config)
set_pin_mode_write ==
    /\ pc = "pin_write"
    /\ IF set_bit_panics(op.port)
       THEN /\ pc' = "panicked"
            /\ result' = "panic"
            /\ UNCHANGED <<txs, config_reg, port_reg, allOk>>
       ELSE LET config == set_bit(local, op.port, PinMode_value(op.pin_mode))
            IN \E r \in Outcomes(BusAddr) :
                  /\ i2c_write(txs, write_register_bytes(Register_PortConfiguration, config), r)
                  /\ pc' = "idle"
                  /\ result' = r
    /\ local' = 0
    /\ UNCHANGED <<addr, op, todo, devAddr, given, config0, req, input, ext>>

---------------------------------------------------------------------------
(* Input domains *)

Chars == {31, 126, 127}         \* a control character, '~', DEL
CoreTexts == UNION {[1..k -> Chars] : k \in 0..MaxTextLen}
\* texts with a space, letters, a tab, NUL and characters past U+00FF
OtherTexts == {<<72, 69, 76, 76, 79>>, <<32, 33>>, <<65, 9, 66>>, <<0, 321>>,
               <<233, 65, 8364, 66, 128512, 67, 68, 69>>,
               <<65, 66, 67, 68, 69, 70, 71, 72, 73>>}
Texts == CoreTexts \cup OtherTexts

Addrs == {96, 111, 112}         \* 0x60, 0x6F, and 0x70 outside the window
Ports == 0..MaxPort

\* small domains for the specification of the whole driver
SomeTexts == {<<72, 73>>, <<65, 66, 67, 68, 69, 70, 71, 72, 73>>}
SomeBytes == {0, 255}
SomePorts == {2, 4}

---------------------------------------------------------------------------
(* The whole driver, small input domains *)

Init ==
    /\ input = <<>>
    /\ \/ new(DEFAULT_SLAVE_ADDR, 0, 0)
       \/ \E a \in Addrs : with_address(a, a, 0, 0)

Next ==
    \/ \E a \in Addrs : set_address(a)
    \/ \E v \in SomeBytes : set_global_intensity(v)
    \/ \E t \in DigitTypes : set_digit_type(t)
    \/ \E m \in DecodeModes : set_decode_mode(m)
    \/ \E e \in BOOLEAN : test(e)
    \/ \E text \in SomeTexts : write_str(text)
    \/ clear_display
    \/ \E m \in BlinkModes, r \in BlinkRates : set_blink(m, r)
    \/ powerup
    \/ shutdown
    \/ set_configuration_bit_read
    \/ set_configuration_bit_write
    \/ \E p \in SomePorts, m \in PinModes : set_pin_mode(p, m)
    \/ set_pin_mode_read
    \/ set_pin_mode_write

Spec == Init /\ [][Next]_vars

---------------------------------------------------------------------------
(* write_str and clear_display on every text of the domain *)

InitText ==
    /\ input \in Texts
    /\ new(DEFAULT_SLAVE_ADDR, 0, 0)

NextText ==
    \/ write_str(input)
    \/ clear_display

SpecText == InitText /\ [][NextText]_vars

---------------------------------------------------------------------------
(* The Configuration register methods from every register value *)

InitConfig ==
    /\ input = <<>>
    /\ \E c \in U8 : new(DEFAULT_SLAVE_ADDR, c, 0)

NextConfig ==
    \/ \E m \in BlinkModes, r \in BlinkRates : set_blink(m, r)
    \/ powerup
    \/ shutdown
    \/ set_configuration_bit_read
    \/ set_configuration_bit_write

SpecConfig == InitConfig /\ [][NextConfig]_vars

---------------------------------------------------------------------------
(* set_pin_mode from every Port Configuration value *)

InitPort ==
    /\ input = <<>>
    /\ \E p \in U8 : new(DEFAULT_SLAVE_ADDR, 0, p)

NextPort ==
    \/ \E p \in Ports, m \in PinModes : set_pin_mode(p, m)
    \/ set_pin_mode_read
    \/ set_pin_mode_write

SpecPort == InitPort /\ [][NextPort]_vars

---------------------------------------------------------------------------
(* The single-register writes on every argument *)

InitWrite ==
    /\ input = <<>>
    /\ new(DEFAULT_SLAVE_ADDR, 0, 0)

NextWrite ==
    \/ \E v \in U8 : set_global_intensity(v)
    \/ \E t \in DigitTypes : set_digit_type(t)
    \/ \E m \in DecodeModes : set_decode_mode(m)
    \/ \E e \in BOOLEAN : test(e)

SpecWrite == InitWrite /\ [][NextWrite]_vars

---------------------------------------------------------------------------
(* The Configuration register methods with another master on the bus *)

ExtConfigs == {0, 165}
ExtValues == {90, 255}

\* Another bus master writes v to the Configuration register, between two
\* transactions of the driver or between two of its methods.
external_write(v) ==
    /\ Len(ext) < MaxExternal
    /\ config_reg' = v
    /\ ext' = Append(ext, ExternalWrite(Len(txs), v))
    /\ UNCHANGED <<addr, pc, op, todo, local, txs, result, devAddr, port_reg,
                   given, allOk, config0, req, input>>

InitExt ==
    /\ input = <<>>
    /\ \E c \in ExtConfigs : new(DEFAULT_SLAVE_ADDR, c, 0)

NextExt ==
    \/ \E m \in BlinkModes, r \in BlinkRates : set_blink(m, r)
    \/ powerup
    \/ shutdown
    \/ set_configuration_bit_read
    \/ set_configuration_bit_write
    \/ \E v \in ExtValues : external_write(v)

SpecExt == InitExt /\ [][NextExt]_vars

---------------------------------------------------------------------------
(* Properties *)

BitOf(byte, k) == (byte \div (2 ^ k)) % 2

\* byte b equals byte c except that bit k has value v (0 or 1)
SameButBit(b, c, k, v) ==
    \A j \in 0..7 : BitOf(b, j) = IF j = k THEN v ELSE BitOf(c, j)

IsRead(tx, reg) ==
    tx.kind = "write_read" /\ tx.addr = addr /\ tx.bytes = <<reg>>

IsWrite(tx, bytes) ==
    tx.kind = "write" /\ tx.addr = addr /\ tx.bytes = bytes

\* C1: for every text of at most 8 characters write_str issues exactly one
\* write of 9 bytes: 0x20 (Digit0Plane0), then per character its code point
\* when in 0x20..0x7E and 0x20 otherwise, then 0x20 up to the ninth byte.
C1_WriteStrRow ==
    (op.name = "write_str" /\ Len(op.text) <= 8) =>
        /\ pc = "idle"
        /\ result \in {"Ok"} \cup Errors
        /\ Len(txs) = 1
        /\ txs[1].kind = "write"
        /\ txs[1].res = result
        /\ Len(txs[1].bytes) = 9
        /\ txs[1].bytes[1] = 32
        /\ \A i \in 1..Len(op.text) :
              txs[1].bytes[i + 1] =
                  IF op.text[i] >= 32 /\ op.text[i] <= 126 THEN op.text[i] ELSE 32
        /\ \A j \in (Len(op.text) + 2)..9 : txs[1].bytes[j] = 32

C1_Witness ==
    /\ op.name = "write_str"
    /\ op.text = <<65, 9, 66>>
    /\ result = "Ok"
    /\ txs[1].bytes = <<32, 65, 32, 66, 32, 32, 32, 32, 32>>

\* C2: for every text of more than 8 characters write_str completes
\* normally, with one 9-byte write carrying the address and the encoding of
\* the first 8 characters only, and reports nothing for the excess length.
C2_LongTextTruncated ==
    (op.name = "write_str" /\ Len(op.text) > 8) =>
        /\ pc = "idle"
        /\ result \in {"Ok"} \cup Errors
        /\ Len(txs) = 1
        /\ txs[1].kind = "write"
        /\ Len(txs[1].bytes) = 9
        /\ txs[1].bytes[1] = 32
        /\ \A i \in 1..8 :
              txs[1].bytes[i + 1] =
                  IF op.text[i] >= 32 /\ op.text[i] <= 126 THEN op.text[i] ELSE 32

\* One read-modify-write cycle on register reg in txs[i], txs[i + 1]:
\* a write-then-read of reg and, when it succeeded, a write of
\* [reg, c with bit k = v], c being the first byte the read returned.
Cycle(i, reg, k, v) ==
    /\ Len(txs) >= i
    /\ IsRead(txs[i], reg)
    /\ txs[i].res = "Ok" =>
          /\ Len(txs) >= i + 1
          /\ txs[i + 1].kind = "write"
          /\ txs[i + 1].addr = addr
          /\ Len(txs[i + 1].bytes) = 2
          /\ txs[i + 1].bytes[1] = reg
          /\ SameButBit(txs[i + 1].bytes[2], txs[i].buffer[1], k, v)

\* C3: powerup (shutdown) is one read-modify-write cycle: a write-then-read
\* of register 0x04 returning the current Configuration byte c, then a write
\* of [0x04, c with bit 0 set (cleared) and every other bit as in c].
C3_PowerCycle ==
    /\ (pc = "cfg_write" /\ op.name \in {"powerup", "shutdown"}) =>
          /\ local = config_reg
          /\ txs[Len(txs)].buffer[1] = config_reg
    /\ (pc = "idle" /\ op.name \in {"powerup", "shutdown"}) =>
          /\ Cycle(1, 4, 0, IF op.name = "powerup" THEN 1 ELSE 0)
          /\ Len(txs) = IF txs[1].res = "Ok" THEN 2 ELSE 1
          /\ result = txs[Len(txs)].res
          /\ result = "Ok" => config_reg = txs[2].bytes[2]
          /\ (result = "Ok" /\ txs[1].buffer[1] = 0 /\ op.name = "powerup") =>
                txs[2].bytes = <<4, 1>>
          /\ (result = "Ok" /\ txs[1].buffer[1] = 1 /\ op.name = "shutdown") =>
                txs[2].bytes = <<4, 0>>

\* powerup from 0x00 wrote 0x01 and the following shutdown read 0x01 and
\* wrote 0x00
C3_Witness ==
    /\ config0 = 0
    /\ op.name = "shutdown"
    /\ pc = "idle"
    /\ req.blink = <<>>
    /\ allOk
    /\ Len(txs) = 2
    /\ txs[1].buffer[1] = 1
    /\ txs[2].bytes = <<4, 0>>

\* C4: when every transaction succeeds, set_blink(mode, rate) issues four
\* transactions: read Configuration, write it with bit 3 = mode (Enable 1,
\* Disable 0), read it again, write it with bit 2 = rate (Fast 1, Slow 0);
\* the final byte is the starting byte with bit 3 = mode, bit 2 = rate and
\* every other bit unchanged; (Enable, Fast) from 0x00 yields 0x0C.
C4_SetBlink ==
    (pc = "idle" /\ op.name = "set_blink" /\ result = "Ok") =>
        LET m == IF op.mode = "Enable" THEN 1 ELSE 0
            r == IF op.rate = "Fast" THEN 1 ELSE 0
            c == txs[1].buffer[1]
        IN /\ Len(txs) = 4
           /\ \A i \in 1..4 : txs[i].res = "Ok"
           /\ Cycle(1, 4, 3, m)
           /\ Cycle(3, 4, 2, r)
           /\ txs[3].buffer[1] = txs[2].bytes[2]
           /\ config_reg = txs[4].bytes[2]
           /\ \A j \in 0..7 :
                 BitOf(config_reg, j) =
                     IF j = 3 THEN m ELSE IF j = 2 THEN r ELSE BitOf(c, j)
           /\ (c = 0 /\ op.mode = "Enable" /\ op.rate = "Fast") => config_reg = 12

C4_Witness ==
    /\ pc = "idle"
    /\ op = [name |-> "set_blink", mode |-> "Enable", rate |-> "Fast"]
    /\ result = "Ok"
    /\ config0 = 0
    /\ req.shutdown = <<>>
    /\ txs[1].buffer[1] = 0
    /\ config_reg = 12

\* C5: for every port in 0..4, set_pin_mode(port, mode) reads register 0x06
\* (value p) and writes back [0x06, p'] where p' is p with bit `port` 1 for
\* Input and 0 for Output and every other bit as in p.
C5_SetPinMode ==
    /\ (pc = "pin_write" /\ op.port \in 0..4) =>
          /\ local = port_reg
          /\ txs[Len(txs)].buffer[1] = port_reg
    /\ (pc = "idle" /\ op.name = "set_pin_mode" /\ op.port \in 0..4) =>
          /\ Cycle(1, 6, op.port, IF op.pin_mode = "Input" THEN 1 ELSE 0)
          /\ Len(txs) = IF txs[1].res = "Ok" THEN 2 ELSE 1
          /\ result = txs[Len(txs)].res
          /\ (result = "Ok" /\ txs[1].buffer[1] = 0
                /\ op.port = 2 /\ op.pin_mode = "Input") => txs[2].bytes = <<6, 4>>
          /\ (result = "Ok" /\ txs[1].buffer[1] = 4
                /\ op.port = 2 /\ op.pin_mode = "Output") => txs[2].bytes = <<6, 0>>

C5_Witness ==
    /\ pc = "idle"
    /\ op = [name |-> "set_pin_mode", port |-> 2, pin_mode |-> "Output"]
    /\ result = "Ok"
    /\ txs[1].buffer[1] = 4
    /\ txs[2].bytes = <<6, 0>>
    /\ port_reg = 0

MultiTransaction == {"powerup", "shutdown", "set_pin_mode", "set_blink"}

\* C6: in powerup, shutdown, set_pin_mode and set_blink the first bus
\* transaction that fails is the last one the method issues, and the method
\* returns the error of that transaction; a failed read is never followed
\* by the write of its cycle.
C6_FailFast ==
    op.name \in MultiTransaction =>
        \A i \in 1..Len(txs) :
            txs[i].res # "Ok" =>
                /\ i = Len(txs)
                /\ pc = "idle"
                /\ result = txs[i].res

\* the second read of set_blink failed after a successful first cycle
C6_Witness ==
    /\ op.name = "set_blink"
    /\ pc = "idle"
    /\ Len(txs) = 3
    /\ txs[3].kind = "write_read"
    /\ txs[3].res = "ArbitrationLoss"
    /\ result = "ArbitrationLoss"

\* C7: set_global_intensity(v), set_digit_type(t), set_decode_mode(m) and
\* test(enable) each issue exactly one write of two bytes and no read:
\* [0x02, v] for every v in 0..255, [0x0C, value of t], [0x01, value of m],
\* [0x07, 1 or 0]; the method returns the result of that transaction.
C7_SingleRegisterWrite ==
    LET OneWrite(reg, byte) ==
            /\ pc = "idle"
            /\ Len(txs) = 1
            /\ IsWrite(txs[1], <<reg, byte>>)
            /\ result = txs[1].res
    IN /\ op.name = "set_global_intensity" => OneWrite(2, op.intensity)
       /\ op.name = "set_digit_type" =>
             OneWrite(12, CASE op.digit_type = "Seg7_16" -> 0
                            [] op.digit_type = "D0_14" -> 1
                            [] op.digit_type = "D0D2_14" -> 7
                            [] op.digit_type = "Seg14" -> 255)
       /\ op.name = "set_decode_mode" =>
             OneWrite(1, CASE op.mode = "NoDecode" -> 0
                           [] op.mode = "HexD0" -> 1
                           [] op.mode = "HexD0D2" -> 7
                           [] op.mode = "Hex" -> 255)
       /\ op.name = "test" => OneWrite(7, IF op.enable THEN 1 ELSE 0)

\* an intensity above 15 written as given
C7_Witness ==
    /\ op = [name |-> "set_global_intensity", intensity |-> 200]
    /\ txs[1].bytes = <<2, 200>>
    /\ result = "Ok"

\* C8: clear_display issues the one transaction of write_str(""): a write
\* of 0x20 (Digit0Plane0) followed by eight 0x20, and returns its result.
C8_ClearDisplay ==
    op.name = "clear_display" =>
        /\ pc = "idle"
        /\ Len(txs) = 1
        /\ IsWrite(txs[1], <<32, 32, 32, 32, 32, 32, 32, 32, 32>>)
        /\ result = txs[1].res
        /\ result \in {"Ok"} \cup Errors

C8_Witness ==
    /\ op.name = "clear_display"
    /\ input = <<126, 126, 126>>
    /\ result = "Ok"
    /\ Len(txs) = 1

Constructors == {"new", "with_address"}

\* C9: every bus transaction is addressed to the address given most
\* recently (0x60 after new), whatever its value; the constructors and
\* set_address succeed and issue no transaction, and a set_address step
\* changes nothing on the device.
C9_StoredAddress ==
    /\ [](/\ addr = given
          /\ \A i \in 1..Len(txs) : txs[i].addr = given
          /\ op.name = "new" => given = 96
          /\ op.name = "set_address" => given = op.addr
          /\ op.name \in Constructors \cup {"set_address"} =>
                (txs = <<>> /\ result = "Ok" /\ pc = "idle"))
    /\ [][op'.name = "set_address" =>
             /\ addr' = op'.addr
             /\ <<config_reg, port_reg, devAddr, allOk>>' =
                   <<config_reg, port_reg, devAddr, allOk>>]_vars

\* a transaction sent to an address outside 0x60..0x6F set by set_address
C9_Witness ==
    /\ given = 112
    /\ devAddr = 96
    /\ op.name = "powerup"
    /\ Len(txs) = 1
    /\ txs[1].addr = 112

\* C10: after any sequence of powerup, shutdown and set_blink calls whose
\* transactions all succeeded, the Configuration register has bit 0, bit 3
\* and bit 2 equal to the Shutdown, Blink and BlinkRate value requested most
\* recently (the initial value if never requested) and bits 1, 4, 5, 6, 7
\* equal to their initial values.
C10_ConfigReflectsRequests ==
    (pc = "idle" /\ allOk) =>
        LET Want(r, k) == IF r = <<>> THEN BitOf(config0, k)
                          ELSE IF r[1] THEN 1 ELSE 0
        IN \A k \in 0..7 :
              BitOf(config_reg, k) =
                  CASE k = 0 -> Want(req.shutdown, 0)
                    [] k = 3 -> Want(req.blink, 3)
                    [] k = 2 -> Want(req.rate, 2)
                    [] OTHER -> BitOf(config0, k)

\* all three flags requested against their initial values, all applied
C10_Witness ==
    /\ pc = "idle"
    /\ allOk
    /\ config0 = 173
    /\ req = [shutdown |-> <<FALSE>>, blink |-> <<FALSE>>, rate |-> <<FALSE>>]
    /\ config_reg = 160

\* C11: when set_blink(mode, rate) fails, it returns the error of the failed
\* transaction and rolls nothing back.  Failed in the second cycle: the
\* register holds the byte the first cycle wrote, bit 3 = mode and bit 2 as
\* before the call.  Failed in the first cycle: no transaction follows the
\* failed one and no step of the call has changed the register.
C11_PartialBlink ==
    /\ [](/\ (op.name = "set_blink" /\ Len(txs) = 1 /\ txs[1].res = "Ok") =>
                txs[1].buffer[1] = config_reg
          /\ (pc = "idle" /\ op.name = "set_blink" /\ result # "Ok") =>
                LET n == Len(txs)
                    m == IF op.mode = "Enable" THEN 1 ELSE 0
                IN /\ n \in 1..4
                   /\ txs[n].res = result
                   /\ \A i \in 1..(n - 1) : txs[i].res = "Ok"
                   /\ n >= 3 =>
                         /\ config_reg = txs[2].bytes[2]
                         /\ BitOf(config_reg, 3) = m
                         /\ BitOf(config_reg, 2) = BitOf(txs[1].buffer[1], 2)
                         /\ \A j \in 0..7 \ {3} :
                               BitOf(config_reg, j) = BitOf(txs[1].buffer[1], j))
    /\ [][(/\ op'.name = "set_blink"
           /\ \/ Len(txs') <= 1
              \/ Len(txs') = 2 /\ txs'[2].res # "Ok") =>
             config_reg' = config_reg]_vars

\* the second write failed: Blink now enabled, BlinkRate still fast though
\* slow was requested
C11_Witness ==
    /\ pc = "idle"
    /\ op = [name |-> "set_blink", mode |-> "Enable", rate |-> "Slow"]
    /\ Len(txs) = 4
    /\ txs[4].res = "NoAcknowledge"
    /\ result = "NoAcknowledge"
    /\ txs[1].buffer[1] = 4
    /\ config_reg = 12

\* C12 as stated: for every port of 5 or more, set_pin_mode reads Port
\* Configuration, writes back the byte with bit `port` set or cleared and
\* ends with the result of the transport, never in a failure or abort of
\* the driver.
C12_AnyPortCompletes ==
    (op.name = "set_pin_mode" /\ op.port >= 5 /\ pc \notin {"pin_read", "pin_write"}) =>
        /\ pc = "idle"
        /\ result \in {"Ok"} \cup Errors
        /\ IsRead(txs[1], 6)
        /\ txs[1].res = "Ok" => (Len(txs) = 2 /\ txs[2].kind = "write")
        /\ result = txs[Len(txs)].res

\* C12 amended: set_pin_mode has no bounds check of its own.  For port 5, 6
\* and 7 it reads Port Configuration, writes back the byte read with bit
\* `port` set (Input) or cleared (Output) and returns the result of the
\* transport.  For port 8 and more it performs the read and, when the read
\* succeeded, panics in set_bit before any write; when the read failed it
\* returns that error.
C12_PortRange ==
    (op.name = "set_pin_mode" /\ op.port >= 5 /\ pc \notin {"pin_read", "pin_write"}) =>
        /\ IsRead(txs[1], 6)
        /\ op.port <= 7 =>
              /\ pc = "idle"
              /\ Cycle(1, 6, op.port, IF op.pin_mode = "Input" THEN 1 ELSE 0)
              /\ Len(txs) = IF txs[1].res = "Ok" THEN 2 ELSE 1
              /\ result = txs[Len(txs)].res
              /\ result = "Ok" => port_reg = txs[2].bytes[2]
        /\ op.port >= 8 =>
              /\ Len(txs) = 1
              /\ txs[1].res = "Ok" =>
                    (pc = "panicked" /\ result = "panic" /\ port_reg = txs[1].buffer[1])
              /\ txs[1].res # "Ok" => (pc = "idle" /\ result = txs[1].res)

\* bit 7, outside the documented ports, set by set_pin_mode(7, Input)
C12_Witness ==
    /\ pc = "idle"
    /\ op = [name |-> "set_pin_mode", port |-> 7, pin_mode |-> "Input"]
    /\ result = "Ok"
    /\ txs[1].buffer[1] = 1
    /\ txs[2].bytes = <<6, 129>>
    /\ port_reg = 129

ConfigMethods == {"powerup", "shutdown", "set_blink"}

\* the bit and the value (0 or 1) of the cycle that starts at txs[i]
TargetBit(i) ==
    CASE op.name \in {"powerup", "shutdown"} -> 0
      [] op.name = "set_blink" /\ i = 1 -> 3
      [] op.name = "set_blink" /\ i = 3 -> 2

TargetValue(i) ==
    CASE op.name = "powerup" -> 1
      [] op.name = "shutdown" -> 0
      [] op.name = "set_blink" /\ i = 1 -> IF op.mode = "Enable" THEN 1 ELSE 0
      [] op.name = "set_blink" /\ i = 3 -> IF op.rate = "Fast" THEN 1 ELSE 0

\* values another master wrote while the method had issued n transactions
WrittenAt(n) == {k \in 1..Len(ext) : ext[k].pos = n}
Max(S) == CHOOSE k \in S : \A j \in S : j <= k
LastAt(n) == ext[Max(WrittenAt(n))].value

\* C13: the driver caches nothing: each read returns the register as it is
\* then, and each cycle writes back the first byte of its own read with only
\* the target bit changed.  With another master writing the register, a
\* value v written between the two cycles of set_blink is the final byte
\* except for bit 2; a value written between the read and the write of a
\* cycle is replaced by that cycle's write; set_blink still returns Ok.
C13_NoCache ==
    /\ [](op.name \in ConfigMethods =>
            /\ \A i \in {1, 3} :
                  (i + 1 <= Len(txs)) =>
                      /\ txs[i].kind = "write_read"
                      /\ txs[i + 1].kind = "write"
                      /\ txs[i + 1].bytes[1] = 4
                      /\ SameButBit(txs[i + 1].bytes[2], txs[i].buffer[1],
                                    TargetBit(i), TargetValue(i))
            /\ (Len(txs) >= 3 /\ txs[3].res = "Ok") =>
                  txs[3].buffer[1] = IF WrittenAt(2) # {} THEN LastAt(2)
                                     ELSE txs[2].bytes[2]
            /\ (Len(txs) = 4 /\ txs[4].res = "Ok" /\ WrittenAt(2) # {}) =>
                  \A j \in 0..7 \ {2} :
                      BitOf(txs[4].bytes[2], j) = BitOf(LastAt(2), j)
            /\ (Len(txs) \in {2, 4} /\ txs[Len(txs)].res = "Ok"
                    /\ WrittenAt(Len(txs)) = {}) =>
                  config_reg = txs[Len(txs)].bytes[2])
    /\ [][(pc \in {"cfg_read"} /\ pc' = "cfg_write") =>
             /\ local' = config_reg
             /\ txs'[Len(txs')].buffer[1] = config_reg]_vars

\* set_blink(Enable, Fast) from 0x00: 0xFF written between the first read
\* and write is replaced by 0x08; 0x5A written between the cycles is read by
\* the second cycle and ends as 0x5E
C13_Witness ==
    /\ pc = "idle"
    /\ op = [name |-> "set_blink", mode |-> "Enable", rate |-> "Fast"]
    /\ result = "Ok"
    /\ ext = << [pos |-> 1, value |-> 255], [pos |-> 2, value |-> 90] >>
    /\ txs[1].buffer[1] = 0
    /\ txs[2].bytes = <<4, 8>>
    /\ txs[3].buffer[1] = 90
    /\ txs[4].bytes = <<4, 94>>
    /\ config_reg = 94

====
